---------------------------- MODULE Spec2Model ----------------------------
(***************************************************************************)
(* Model of esphome/espota2.py: the OTA upload client.                     *)
(*                                                                         *)
(*   run_ota -> run_ota_impl_ -> perform_ota -> send_check /               *)
(*   receive_exactly -> check_error, and ProgressBar.                      *)
(*                                                                         *)
(* The program is single threaded and blocking.  One action models one     *)
(* straight-line piece of code up to and including its next socket call;   *)
(* the device and the transport decide the outcome of that call.           *)
(***************************************************************************)
EXTENDS Integers, Sequences, FiniteSets, TLC

(***************************************************************************)
(* Constant tables, espota2.py lines 15-50.                                *)
(***************************************************************************)
RESPONSE_OK == 0
RESPONSE_REQUEST_AUTH == 1

RESPONSE_HEADER_OK == 64
RESPONSE_AUTH_OK == 65
RESPONSE_UPDATE_PREPARE_OK == 66
RESPONSE_BIN_MD5_OK == 67
RESPONSE_RECEIVE_OK == 68
RESPONSE_UPDATE_END_OK == 69
RESPONSE_SUPPORTS_COMPRESSION == 70
RESPONSE_CHUNK_OK == 71

RESPONSE_ERROR_MAGIC == 128
RESPONSE_ERROR_UPDATE_PREPARE == 129
RESPONSE_ERROR_AUTH_INVALID == 130
RESPONSE_ERROR_WRITING_FLASH == 131
RESPONSE_ERROR_UPDATE_END == 132
RESPONSE_ERROR_INVALID_BOOTSTRAPPING == 133
RESPONSE_ERROR_WRONG_CURRENT_FLASH_CONFIG == 134
RESPONSE_ERROR_WRONG_NEW_FLASH_CONFIG == 135
RESPONSE_ERROR_ESP8266_NOT_ENOUGH_SPACE == 136
RESPONSE_ERROR_ESP32_NOT_ENOUGH_SPACE == 137
RESPONSE_ERROR_NO_UPDATE_PARTITION == 138
RESPONSE_ERROR_MD5_MISMATCH == 139
RESPONSE_ERROR_UNKNOWN == 255

OTA_VERSION_1_0 == 1
OTA_VERSION_2_0 == 2

MAGIC_BYTES == <<108, 38, 247, 92, 69>>

FEATURE_SUPPORTS_COMPRESSION == 1

UPLOAD_BLOCK_SIZE == 8192
\* A slip that takes one block for the send buffer.
UploadBufferOneBlock == UPLOAD_BLOCK_SIZE
UPLOAD_BUFFER_SIZE == UPLOAD_BLOCK_SIZE * 8

\* perform_ota line 234: the authentication nonce is 32 raw bytes.
NONCE_SIZE == 32
\* run_ota_impl_ line 332 and perform_ota line 253: the two socket timeouts.
CONNECT_TIMEOUT == 10
\* A slip that leaves the timeout of the handshake in place.
UploadTimeoutForgotten == CONNECT_TIMEOUT
UPLOAD_TIMEOUT == 30
\* ProgressBar.__init__ line 57: last_progress = None.
NoProgress == -1

(***************************************************************************)
(* Bounds of the model.                                                    *)
(***************************************************************************)
\* Candidate addresses resolve_ip_address may return.
MaxAddrs == 2
\* The largest firmware image holds MaxBlocks full blocks and one more byte.
MaxBlocks == 1
\* A fragmented read returns at most MaxFrag bytes, or all that was asked for.
MaxFrag == 1

Byte == 0..255

\* The bytes the modelled device may put on the wire in a decoded reply: every
\* success code (0 is also an unsupported version), the auth request (also
\* version 1), version 2, and the MD5-mismatch error.
DevBytes ==
    { RESPONSE_OK, RESPONSE_REQUEST_AUTH, OTA_VERSION_2_0,
      RESPONSE_HEADER_OK, RESPONSE_AUTH_OK, RESPONSE_UPDATE_PREPARE_OK,
      RESPONSE_BIN_MD5_OK, RESPONSE_RECEIVE_OK, RESPONSE_UPDATE_END_OK,
      RESPONSE_SUPPORTS_COMPRESSION, RESPONSE_CHUNK_OK,
      RESPONSE_ERROR_MD5_MISMATCH }

\* The bytes a nonce is made of: an ASCII letter, or a byte that is not text.
NonceBytes == { 97, RESPONSE_ERROR_MAGIC }

\* The passwords a caller may hand in: None, the empty string, a real one.
Passwords == { "None", "", "secret" }

\* Sizes of the firmware file.
FileSizes ==
    { 0, UPLOAD_BLOCK_SIZE * MaxBlocks, UPLOAD_BLOCK_SIZE * MaxBlocks + 1 }

\* The client nonces random.random() may lead to.
CNonces == { "cnonce_a", "cnonce_b" }

(***************************************************************************)
(* The `expect` argument of receive_exactly / check_error.  Call sites     *)
(* pass either one integer (expect = RESPONSE_OK) or a list.               *)
(***************************************************************************)
ExpectInt(v) == [scalar |-> TRUE, vals |-> <<v>>]
ExpectList(l) == [scalar |-> FALSE, vals |-> l]

\* Python truth value of `expect` (line 116): 0 and [] are false.
Truthy(expect) ==
    IF expect.scalar THEN expect.vals[1] # 0 ELSE Len(expect.vals) > 0

\* The values the call site lists as acceptable.
ExpectSet(expect) == { expect.vals[i] : i \in 1..Len(expect.vals) }

\* Every `expect` perform_ota passes.
Expects ==
    { ExpectInt(RESPONSE_OK),
      ExpectList(<<RESPONSE_HEADER_OK, RESPONSE_SUPPORTS_COMPRESSION>>),
      ExpectList(<<RESPONSE_REQUEST_AUTH, RESPONSE_AUTH_OK>>),
      ExpectList(<< >>),
      ExpectInt(RESPONSE_AUTH_OK),
      ExpectInt(RESPONSE_UPDATE_PREPARE_OK),
      ExpectInt(RESPONSE_BIN_MD5_OK),
      ExpectInt(RESPONSE_CHUNK_OK),
      ExpectInt(RESPONSE_RECEIVE_OK),
      ExpectInt(RESPONSE_UPDATE_END_OK) }

\* The diagnostic check_error raises for a device error code (lines 119-175).
ErrorKind(dat) ==
    CASE dat = RESPONSE_ERROR_MAGIC -> "InvalidMagic"
      [] dat = RESPONSE_ERROR_UPDATE_PREPARE -> "UpdatePrepare"
      [] dat = RESPONSE_ERROR_AUTH_INVALID -> "AuthInvalid"
      [] dat = RESPONSE_ERROR_WRITING_FLASH -> "WritingFlash"
      [] dat = RESPONSE_ERROR_UPDATE_END -> "UpdateEnd"
      [] dat = RESPONSE_ERROR_INVALID_BOOTSTRAPPING -> "InvalidBootstrapping"
      [] dat = RESPONSE_ERROR_WRONG_CURRENT_FLASH_CONFIG -> "WrongCurrentFlashConfig"
      [] dat = RESPONSE_ERROR_WRONG_NEW_FLASH_CONFIG -> "WrongNewFlashConfig"
      [] dat = RESPONSE_ERROR_ESP8266_NOT_ENOUGH_SPACE -> "Esp8266NotEnoughSpace"
      [] dat = RESPONSE_ERROR_ESP32_NOT_ENOUGH_SPACE -> "Esp32NotEnoughSpace"
      [] dat = RESPONSE_ERROR_NO_UPDATE_PARTITION -> "NoUpdatePartition"
      [] dat = RESPONSE_ERROR_MD5_MISMATCH -> "Md5Mismatch"
      [] dat = RESPONSE_ERROR_UNKNOWN -> "Unknown"
      [] OTHER -> "None"

\* check_error(data, expect), lines 115-179.  "ok" is the normal return, any
\* other value but "IndexError" is the kind of the OTAError raised; data[0] of
\* an empty read raises IndexError.
check_error(data, expect) ==
    IF ~Truthy(expect) THEN "ok"
    ELSE IF Len(data) = 0 THEN "IndexError"
    ELSE IF ErrorKind(data[1]) # "None" THEN ErrorKind(data[1])
    ELSE IF data[1] \notin ExpectSet(expect) THEN "Unexpected"
    ELSE "ok"


(***************************************************************************)
(* State.                                                                  *)
(***************************************************************************)
VARIABLES
    pc,            \* where the program is
    password,      \* run_ota argument: "None", "" or a password
    file_size,     \* length of the firmware file
    nres,          \* number of addresses resolve_ip_address returns
    addr,          \* addresses of `res` taken by the for loop so far
    socks,         \* one entry per socket created: "open" or "closed"
    nodelay,       \* TCP_NODELAY of the current socket
    sndbuf,        \* SO_SNDBUF of the current socket (0: the OS default)
    timeout,       \* timeout of the current socket (0: none set)
    eof,           \* the device has closed its end of the stream
    wire,          \* every completed send and receive, in order
    rcv,           \* the frame of the running receive_exactly call
    version,       \* perform_ota locals
    features,
    auth,
    upload,        \* upload_contents
    nonce,
    cnonce,
    offset,
    chunk,
    last_progress, \* ProgressBar.last_progress
    renders,       \* the percentages ProgressBar.update has written
    done_calls,    \* number of ProgressBar.done calls
    exc,           \* the exception in flight out of perform_ota
    impl_out,      \* how run_ota_impl_ ended
    status,        \* how run_ota ended
    conn,          \* outcome of sock.connect for each address tried
    ota_calls,     \* the addresses perform_ota was invoked on, in order
    pw_used,       \* perform_ota has read its `password` argument
    ce,            \* input and result of a stand-alone check_error call
    stream,        \* the bytes queued on the socket of a stand-alone receive
    calls,         \* the arguments of stand-alone ProgressBar.update calls
    sz             \* input and result of a stand-alone length encoding

inputVars == <<password, file_size, nres>>
sockOpts == <<nodelay, sndbuf, timeout>>
sessVars == <<version, features, auth, upload, nonce, cnonce, offset, chunk>>
progVars == <<last_progress, renders, done_calls>>
outVars == <<impl_out, status>>
histVars == <<conn, ota_calls, pw_used>>
aloneVars == <<ce, stream, calls, sz>>

vars ==
    <<pc, password, file_size, nres, addr, socks, nodelay, sndbuf, timeout, eof,
      wire, rcv, version, features, auth, upload, nonce, cnonce, offset, chunk,
      last_progress, renders, done_calls, exc, impl_out, status, histVars, aloneVars>>

NoExc == [type |-> "none", kind |-> "none", msg |-> "none"]
NoRcv ==
    [amount |-> 0, msg |-> "none", expect |-> ExpectList(<< >>), decode |-> TRUE,
     data |-> << >>, ret |-> "none"]
NoUpload == [kind |-> "none", size |-> 0]
CeIdle == [dat |-> 0, expect |-> ExpectList(<< >>), out |-> "idle"]
\* No receive queue fixed in advance: the device decides each byte when it is
\* read.
NoStream == [given |-> FALSE, bytes |-> << >>, pos |-> 0]
SzIdle == [size |-> [top |-> 0, low |-> 0], encoded |-> << >>, out |-> "idle"]

(***************************************************************************)
(* Values and pure helpers.                                                *)
(***************************************************************************)
\* A slip that tests `password is None` instead of `not password`.
PasswordIsNone(pw) == pw = "None"

\* `not password` at line 231: None and "" are false.
PasswordMissing(pw) == pw = "None" \/ pw = ""

\* file_handle.read(), line 199.
FileContents(size) == [kind |-> "raw", size |-> size]

\* gzip framing: 10 bytes of header, 8 of trailer, at least 2 of deflate data.
GzipFraming == 20

\* The lengths gzip.compress may give a file of n bytes (line 222): the
\* content decides; a file that shrinks to half its size is modelled.
GzipSizes(n) == { GzipFraming + (n \div 2) }

\* gzip.compress(file_contents, compresslevel=9), line 222.
GzipCompress(contents, gzsize) == [kind |-> "gzip", size |-> gzsize]

\* A slip that takes both feature replies as consent to compression.
UploadContentsAlwaysGzip(feat, contents, gzsize) ==
    GzipCompress(contents, gzsize)

\* Lines 221-225: which bytes are uploaded.
UploadContents(feat, contents, gzsize) ==
    IF feat = RESPONSE_SUPPORTS_COMPRESSION
    THEN GzipCompress(contents, gzsize)
    ELSE contents

\* A length as Python holds it, an integer of any size, written as
\* top * 2^24 + low with 0 <= low < 2^24.
Wide(n) == [top |-> n \div 16777216, low |-> n % 16777216]

\* Lines 256-261: (upload_size >> 24) & 0xFF, ... >> 16, >> 8, >> 0.
UploadSizeEncodedWide(w) ==
    << w.top % 256,
       (w.low \div 65536) % 256,
       (w.low \div 256) % 256,
       w.low % 256 >>

\* Lines 256-261 for a length below 2^31.
UploadSizeEncoded(upload_size) == UploadSizeEncodedWide(Wide(upload_size))

\* hashlib.md5(...).hexdigest(): the hex text of the digest of `parts`.
Md5Hex(parts) == [type |-> "str", md5 |-> parts]

\* A slip that sends the password where its digest belongs.
AuthResultPlain(pw, n, cn) == [type |-> "str", text |-> pw]

\* Lines 242-246: md5(password, nonce, cnonce).
AuthResult(pw, n, cn) == Md5Hex(<<pw, n, cn>>)

\* Line 265: md5 of the uploaded bytes.
UploadMd5(contents) == Md5Hex(<<contents>>)

\* send_check lines 184-189: what goes to sock.sendall.
ToBytes(data) ==
    CASE data.type = "list" -> data.val
      [] data.type = "int" -> <<data.val>>
      [] data.type = "str" -> data

\* Line 282: upload_contents[offset : offset + UPLOAD_BLOCK_SIZE].
Min(a, b) == IF a < b THEN a ELSE b

\* A slip in the slice bound: one byte short of a block.
ChunkOneShort(contents, off) ==
    [of |-> contents, from |-> Min(off, contents.size),
     to |-> Min(off + UPLOAD_BLOCK_SIZE - 1, contents.size)]

Chunk(contents, off) ==
    [of |-> contents, from |-> Min(off, contents.size),
     to |-> Min(off + UPLOAD_BLOCK_SIZE, contents.size)]
ChunkLen(c) == c.to - c.from
NoChunk == [of |-> NoUpload, from |-> 0, to |-> 0]

\* A slip in the version test: acknowledgements only after version 2.
ChunkAckedAfterV2(v) == v > OTA_VERSION_2_0

\* Line 289: a chunk is acknowledged from protocol version 2 on.
ChunkAcked(v) == v >= OTA_VERSION_2_0

\* Line 210: version not in supported_versions.
VersionSupported(v) == v \in { OTA_VERSION_1_0, OTA_VERSION_2_0 }

\* bytes.decode() at line 235: the nonce must be UTF-8 text.  The nonces of
\* the model repeat one byte, and such a nonce is text iff the byte is ASCII.
IsText(data) == \A i \in 1..Len(data) : data[i] < 128

\* The whole percentages k for which the double nearest to k/100, times 100,
\* falls just below k, so that int() at line 65 gives k - 1: 0.29 * 100 is
\* 28.999999999999996.  For every other quotient of two lengths below 2^31
\* int(progress * 100) is the exact floor.
FloatShort == { 29, 57, 58 }

\* A slip that rounds to the nearest percent, as line 69 does for the bar.
NewProgressRounded(off, upload_size) ==
    IF off >= upload_size THEN 100
    ELSE (off * 200 + upload_size) \div (2 * upload_size)

\* A slip that shows what is left instead of what is done.
NewProgressRemaining(off, upload_size) ==
    IF off >= upload_size THEN 0 ELSE 100 - (off * 100) \div upload_size

\* Lines 62-65 with progress = off / upload_size (line 295): the clamp to 1,
\* then int(progress * 100) in double arithmetic.
NewProgress(off, upload_size) ==
    IF off >= upload_size THEN 100
    ELSE IF (off * 100) % upload_size = 0
            /\ (off * 100) \div upload_size \in FloatShort
         THEN (off * 100) \div upload_size - 1
    ELSE (off * 100) \div upload_size

\* A slip that skips the redraw only once the bar is full.
SameAsLastWhenDone(new_progress, last) ==
    new_progress = last /\ new_progress = 100

\* Line 66: new_progress == self.last_progress.
SameAsLast(new_progress, last) == new_progress = last

\* sock.close() on the current socket.
CloseCurrent(s) == [s EXCEPT ![Len(s)] = "closed"]

\* A slip that leaves the socket open when check_error raises.
KeepOpenOnCheckError(s) == s

\* receive_exactly line 104: the socket is closed when check_error raises.
CloseOnCheckError(s) == CloseCurrent(s)

\* run_ota_impl_ line 348: finally: sock.close().
CloseFinally(s) == CloseCurrent(s)

\* run_ota_impl_ line 336: sock.close() after a failed connect.
CloseOnConnectError(s) == CloseCurrent(s)

\* The entries of `wire`: a completed send, and a receive_exactly call that
\* returned (ok) or raised on its first byte (not ok), each with the socket
\* options it ran under.
Tx(msg, data) ==
    [dir |-> "tx", msg |-> msg, data |-> data, ok |-> TRUE,
     expect |-> ExpectList(<< >>), timeout |-> timeout, nodelay |-> nodelay,
     sndbuf |-> sndbuf]
Rx(msg, data, ok, expect) ==
    [dir |-> "rx", msg |-> msg, data |-> data, ok |-> ok, expect |-> expect,
     timeout |-> timeout, nodelay |-> nodelay, sndbuf |-> sndbuf]

\* k copies of byte b.
Rep(b, k) == [i \in 1..k |-> b]

\* The byte counts a read asking for n bytes may return.
RecvSizes(n) == { k \in 1..n : k <= MaxFrag \/ k = n }

\* The byte values the device sends into the running receive.
StreamBytes ==
    IF rcv.decode THEN DevBytes
    ELSE IF rcv.data = << >> THEN NonceBytes
    ELSE { rcv.data[1] }

\* sock.recv(n) on a receive queue fixed in advance: the next bytes of the
\* queue, at least one and at most n of them.
Queued(n) ==
    { [data |-> SubSeq(stream.bytes, stream.pos + 1, stream.pos + k),
       eof |-> FALSE] :
        k \in RecvSizes(Min(n, Len(stream.bytes) - stream.pos)) }

\* sock.recv(n), line 84: some of the bytes asked for, or nothing once the
\* device has closed the stream (which it may do at any time).
RecvResults(n) ==
    IF stream.given THEN Queued(n)
    ELSE IF eof THEN { [data |-> << >>, eof |-> TRUE] }
    ELSE { [data |-> Rep(b, k), eof |-> FALSE] : b \in StreamBytes, k \in RecvSizes(n) }
         \cup { [data |-> << >>, eof |-> TRUE] }

\* The queue after a read has taken `data` from it.
Taken(data) ==
    IF stream.given THEN [stream EXCEPT !.pos = @ + Len(data)] ELSE stream

\* A slip that asks for the whole amount again in the loop.
RemainingWhole(r) == r.amount

\* Line 109: amount - len(data).
Remaining(r) == r.amount - Len(r.data)

(***************************************************************************)
(* Initial state: run_ota has been called.                                 *)
(***************************************************************************)
\* Nothing has run yet.
Fresh ==
    /\ addr = 0
    /\ nodelay = 0
    /\ sndbuf = 0
    /\ timeout = 0
    /\ eof = FALSE
    /\ wire = << >>
    /\ version = 0
    /\ features = 0
    /\ auth = 0
    /\ upload = NoUpload
    /\ nonce = << >>
    /\ cnonce = "none"
    /\ offset = 0
    /\ chunk = NoChunk
    /\ last_progress = NoProgress
    /\ renders = << >>
    /\ done_calls = 0
    /\ exc = NoExc
    /\ impl_out = "running"
    /\ status = "running"
    /\ conn = << >>
    /\ ota_calls = << >>
    /\ pw_used = FALSE

Init ==
    /\ pc = "resolve"
    /\ password \in Passwords
    /\ file_size \in FileSizes
    /\ nres \in 1..MaxAddrs
    /\ socks = << >>
    /\ Fresh
    /\ rcv = NoRcv
    /\ ce = CeIdle
    /\ stream = NoStream
    /\ calls = << >>
    /\ sz = SzIdle

(***************************************************************************)
(* Fragments shared by the actions of perform_ota.                         *)
(***************************************************************************)
\* ProgressBar.update(num / den), lines 59-72: nothing is written when the
\* percentage is the one written last.
Update(num, den) ==
    IF SameAsLast(NewProgress(num, den), last_progress)
    THEN UNCHANGED <<last_progress, renders>>
    ELSE /\ last_progress' = NewProgress(num, den)
         /\ renders' = Append(renders, NewProgress(num, den))

\* An exception leaves perform_ota.
Raise(type, kind, msg) ==
    /\ exc' = [type |-> type, kind |-> kind, msg |-> msg]
    /\ pc' = "ota_raised"

\* send_check(sock, data, msg), lines 182-193, when sendall succeeds.
SendOk(data, msg) == wire' = Append(wire, Tx(msg, ToBytes(data)))

\* send_check when sendall raises OSError: OTAError "Error sending ...".
SendFails(msg) ==
    /\ wire' = wire
    /\ Raise("OTAError", "IOFailure", msg)

\* Entry of receive_exactly(sock, amount, msg, expect, decode), lines 90-94;
\* `ret` is where perform_ota goes on when the call returns.
ReceiveExactly(amount, msg, expect, decode, ret) ==
    /\ rcv' = [amount |-> amount, msg |-> msg, expect |-> expect,
               decode |-> decode, data |-> << >>, ret |-> ret]
    /\ pc' = "recv_first"

(***************************************************************************)
(* run_ota_impl_, lines 314-353, and run_ota, lines 356-361.               *)
(***************************************************************************)
\* Lines 315-326: resolve_ip_address; EsphomeError becomes OTAError, which
\* run_ota catches (lines 359-361).
Resolve ==
    /\ pc = "resolve"
    /\ \/ /\ pc' = "for_res"
          /\ UNCHANGED outVars
       \/ /\ pc' = "exit"
          /\ impl_out' = "OTAError"
          /\ status' = "1"
    /\ UNCHANGED <<inputVars, addr, socks, sockOpts, eof, wire, rcv, sessVars,
                   progVars, exc, histVars, aloneVars>>

\* Lines 328-332 and 352-353: the next address, a new socket with timeout
\* 10; or no address is left.
ForRes ==
    /\ pc = "for_res"
    /\ IF addr < nres
       THEN /\ addr' = addr + 1
            /\ socks' = Append(socks, "open")
            /\ timeout' = CONNECT_TIMEOUT
            /\ nodelay' = 0
            /\ sndbuf' = 0
            /\ pc' = "connect"
            /\ UNCHANGED outVars
       ELSE /\ pc' = "exit"
            /\ impl_out' = "1"
            /\ status' = "1"
            /\ UNCHANGED <<addr, socks, sockOpts>>
    /\ UNCHANGED <<inputVars, eof, wire, rcv, sessVars, progVars, exc, histVars, aloneVars>>

\* Lines 333-340: sock.connect; on OSError the socket is closed and the loop
\* continues.  Line 343, in OpenFile: perform_ota is invoked on this address.
Connect ==
    /\ pc = "connect"
    /\ \/ /\ conn' = Append(conn, "connected")
          /\ pc' = "open_file"
          /\ UNCHANGED socks
       \/ /\ conn' = Append(conn, "failed")
          /\ socks' = CloseOnConnectError(socks)
          /\ pc' = "for_res"
    /\ UNCHANGED <<inputVars, addr, sockOpts, eof, wire, rcv, sessVars,
                   progVars, exc, outVars, ota_calls, pw_used, aloneVars>>

\* Line 341: open(filename, "rb").  It stands outside the try/finally, so
\* its OSError leaves run_ota_impl_ and run_ota as it is.
OpenFile ==
    /\ pc = "open_file"
    /\ \/ /\ ota_calls' = Append(ota_calls, addr)
          /\ pc' = "ota_start"
          /\ UNCHANGED outVars
       \/ /\ pc' = "exit"
          /\ impl_out' = "OSError"
          /\ status' = "OSError"
          /\ UNCHANGED ota_calls
    /\ UNCHANGED <<inputVars, addr, socks, sockOpts, eof, wire, rcv, sessVars,
                   progVars, exc, conn, pw_used, aloneVars>>

\* A slip that writes `continue` where line 346 has `return 1`.
NextAddressAfterOtaError == "for_res"

\* Line 346: `return 1` leaves the for loop and run_ota_impl_.
AfterOtaError == "exit"

\* Lines 343-350: perform_ota returned; finally closes the socket; return 0.
OtaReturned ==
    /\ pc = "ota_returned"
    /\ socks' = CloseFinally(socks)
    /\ impl_out' = "0"
    /\ status' = "0"
    /\ pc' = "exit"
    /\ UNCHANGED <<inputVars, addr, sockOpts, eof, wire, rcv, sessVars,
                   progVars, exc, histVars, aloneVars>>

\* Lines 344-348: perform_ota raised.  OTAError gives return 1; anything
\* else passes through run_ota_impl_ and run_ota.  finally closes the socket.
OtaRaised ==
    /\ pc = "ota_raised"
    /\ socks' = CloseFinally(socks)
    /\ IF exc.type = "OTAError"
       THEN impl_out' = "1" /\ status' = "1"
       ELSE impl_out' = exc.type /\ status' = exc.type
    /\ pc' = IF exc.type = "OTAError" THEN AfterOtaError ELSE "exit"
    /\ UNCHANGED <<inputVars, addr, sockOpts, eof, wire, rcv, sessVars,
                   progVars, exc, histVars, aloneVars>>

(***************************************************************************)
(* receive_exactly, lines 90-112.                                          *)
(***************************************************************************)
\* Lines 96-105: the first byte is read and handed to check_error.
RecvFirst ==
    /\ pc = "recv_first"
    /\ \/ /\ ~eof
          /\ Raise("OTAError", "IOFailure", rcv.msg)
          /\ UNCHANGED <<rcv, wire, socks, eof, stream>>
       \/ \E r \in RecvResults(1) :
            LET data == rcv.data \o r.data
                res == check_error(data, rcv.expect)
            IN  /\ eof' = r.eof
                /\ stream' = Taken(r.data)
                /\ rcv' = [rcv EXCEPT !.data = data]
                /\ CASE res = "ok" ->
                          /\ pc' = "recv_loop"
                          /\ UNCHANGED <<wire, socks, exc>>
                     [] res = "IndexError" ->
                          /\ Raise("IndexError", "IndexError", rcv.msg)
                          /\ UNCHANGED <<wire, socks>>
                     [] OTHER ->
                          /\ socks' = CloseOnCheckError(socks)
                          /\ wire' = Append(wire, Rx(rcv.msg, data, FALSE, rcv.expect))
                          /\ Raise("OTAError", res, rcv.msg)
    /\ UNCHANGED <<inputVars, addr, sockOpts, sessVars, progVars, outVars,
                   histVars, ce, calls, sz>>

\* Lines 107 and 112: the loop test, and the return.
RecvLoop ==
    /\ pc = "recv_loop"
    /\ IF Len(rcv.data) < rcv.amount
       THEN /\ pc' = "recv_more"
            /\ UNCHANGED wire
       ELSE /\ pc' = rcv.ret
            /\ wire' = Append(wire, Rx(rcv.msg, rcv.data, TRUE, rcv.expect))
    /\ UNCHANGED <<inputVars, addr, socks, sockOpts, eof, rcv, sessVars,
                   progVars, exc, outVars, histVars, aloneVars>>

\* Lines 108-111: the loop body.
RecvMore ==
    /\ pc = "recv_more"
    /\ \/ /\ ~eof
          /\ Raise("OTAError", "IOFailure", rcv.msg)
          /\ UNCHANGED <<rcv, eof, stream>>
       \/ \E r \in RecvResults(Remaining(rcv)) :
            /\ eof' = r.eof
            /\ stream' = Taken(r.data)
            /\ rcv' = [rcv EXCEPT !.data = rcv.data \o r.data]
            /\ pc' = "recv_loop"
            /\ UNCHANGED exc
    /\ UNCHANGED <<inputVars, addr, socks, sockOpts, wire, sessVars, progVars,
                   outVars, histVars, ce, calls, sz>>

(***************************************************************************)
(* perform_ota, lines 196-311.  Logging and the stderr line feed of line   *)
(* 292 are not part of the state.                                          *)
(***************************************************************************)
\* A setsockopt or settimeout call raised: its OSError is caught nowhere in
\* perform_ota.
SockOptFails(what) == Raise("OSError", "OSError", what)

\* Lines 199-204: the file is read and TCP_NODELAY switched on.
OtaStart ==
    /\ pc = "ota_start"
    /\ \/ /\ nodelay' = 1
          /\ pc' = "send_magic"
          /\ UNCHANGED exc
       \/ /\ SockOptFails("nodelay")
          /\ UNCHANGED nodelay
    /\ UNCHANGED <<inputVars, addr, socks, sndbuf, timeout, eof, wire, rcv,
                   sessVars, progVars, outVars, histVars, aloneVars>>

\* Lines 205-207: the magic bytes go out, the version reply is awaited.
SendMagic ==
    /\ pc = "send_magic"
    /\ \/ /\ SendOk([type |-> "list", val |-> MAGIC_BYTES], "magic bytes")
          /\ ReceiveExactly(2, "version", ExpectInt(RESPONSE_OK), TRUE,
                            "version_check")
          /\ UNCHANGED exc
       \/ /\ SendFails("magic bytes")
          /\ UNCHANGED rcv
    /\ UNCHANGED <<inputVars, addr, socks, sockOpts, eof, sessVars, progVars,
                   outVars, histVars, aloneVars>>

\* Lines 207-213: `_, version = ...` and the supported-version test.
VersionCheck ==
    /\ pc = "version_check"
    /\ version' = rcv.data[2]
    /\ IF VersionSupported(rcv.data[2])
       THEN pc' = "send_features" /\ UNCHANGED exc
       ELSE Raise("OTAError", "UnsupportedVersion", "version")
    /\ UNCHANGED <<inputVars, addr, socks, sockOpts, eof, wire, rcv, features,
                   auth, upload, nonce, cnonce, offset, chunk, progVars, outVars, histVars, aloneVars>>

\* Lines 216-219: the feature byte goes out, the feature reply is awaited.
SendFeatures ==
    /\ pc = "send_features"
    /\ \/ /\ SendOk([type |-> "int", val |-> FEATURE_SUPPORTS_COMPRESSION],
                    "features")
          /\ ReceiveExactly(1, "features",
                            ExpectList(<<RESPONSE_HEADER_OK,
                                         RESPONSE_SUPPORTS_COMPRESSION>>),
                            TRUE, "features_done")
          /\ UNCHANGED exc
       \/ /\ SendFails("features")
          /\ UNCHANGED rcv
    /\ UNCHANGED <<inputVars, addr, socks, sockOpts, eof, sessVars, progVars,
                   outVars, histVars, aloneVars>>

\* Lines 219-229: the payload is compressed or not, the auth reply awaited.
FeaturesDone ==
    /\ pc = "features_done"
    /\ features' = rcv.data[1]
    /\ \E gzsize \in GzipSizes(file_size) :
         upload' = UploadContents(rcv.data[1], FileContents(file_size), gzsize)
    /\ ReceiveExactly(1, "auth",
                      ExpectList(<<RESPONSE_REQUEST_AUTH, RESPONSE_AUTH_OK>>),
                      TRUE, "auth_done")
    /\ UNCHANGED <<inputVars, addr, socks, sockOpts, eof, wire, version, auth,
                   nonce, cnonce, offset, chunk, progVars, exc, outVars, histVars, aloneVars>>

\* Lines 227-235: on an auth request a password is needed, and the nonce is
\* read; otherwise the auth step is over.  Line 231 is the first of the two
\* places that read `password`.
AuthDone ==
    /\ pc = "auth_done"
    /\ auth' = rcv.data[1]
    /\ IF rcv.data[1] = RESPONSE_REQUEST_AUTH
       THEN /\ pw_used' = TRUE
            /\ IF PasswordMissing(password)
               THEN /\ Raise("OTAError", "MissingCredential", "auth")
                    /\ UNCHANGED rcv
               ELSE /\ ReceiveExactly(NONCE_SIZE, "authentication nonce",
                                      ExpectList(<< >>), FALSE, "nonce_done")
                    /\ UNCHANGED exc
       ELSE /\ pc' = "set_timeout"
            /\ UNCHANGED <<rcv, exc, pw_used>>
    /\ UNCHANGED <<inputVars, addr, socks, sockOpts, eof, wire, version,
                   features, upload, nonce, cnonce, offset, chunk, progVars,
                   outVars, conn, ota_calls, aloneVars>>

\* Lines 235-240: the nonce is decoded as text, the client nonce is drawn
\* and sent.
NonceDone ==
    /\ pc = "nonce_done"
    /\ IF ~IsText(rcv.data)
       THEN /\ Raise("UnicodeDecodeError", "UnicodeDecodeError", "nonce")
            /\ UNCHANGED <<nonce, cnonce, wire>>
       ELSE /\ nonce' = rcv.data
            /\ \E cn \in CNonces :
                 /\ cnonce' = cn
                 /\ \/ /\ SendOk([type |-> "str", text |-> cn], "auth cnonce")
                       /\ pc' = "send_result"
                       /\ UNCHANGED exc
                    \/ SendFails("auth cnonce")
    /\ UNCHANGED <<inputVars, addr, socks, sockOpts, eof, rcv, version,
                   features, auth, upload, offset, chunk, progVars, outVars, histVars, aloneVars>>

\* Lines 242-250: the digest goes out, the auth result is awaited.  Line 243
\* is the second place that reads `password`.
SendResult ==
    /\ pc = "send_result"
    /\ pw_used' = TRUE
    /\ \/ /\ SendOk(AuthResult(password, nonce, cnonce), "auth result")
          /\ ReceiveExactly(1, "auth result", ExpectInt(RESPONSE_AUTH_OK),
                            TRUE, "set_timeout")
          /\ UNCHANGED exc
       \/ /\ SendFails("auth result")
          /\ UNCHANGED rcv
    /\ UNCHANGED <<inputVars, addr, socks, sockOpts, eof, sessVars, progVars,
                   outVars, conn, ota_calls, aloneVars>>

\* Line 253: sock.settimeout(30.0).
SetTimeout ==
    /\ pc = "set_timeout"
    /\ \/ /\ timeout' = UPLOAD_TIMEOUT
          /\ pc' = "send_size"
          /\ UNCHANGED exc
       \/ /\ SockOptFails("timeout")
          /\ UNCHANGED timeout
    /\ UNCHANGED <<inputVars, addr, socks, nodelay, sndbuf, eof, wire, rcv,
                   sessVars, progVars, outVars, histVars, aloneVars>>

\* Lines 255-263: the length goes out, "update prepare OK" is awaited.
SendSize ==
    /\ pc = "send_size"
    /\ \/ /\ SendOk([type |-> "list", val |-> UploadSizeEncoded(upload.size)],
                    "binary size")
          /\ ReceiveExactly(1, "binary size",
                            ExpectInt(RESPONSE_UPDATE_PREPARE_OK), TRUE,
                            "send_md5")
          /\ UNCHANGED exc
       \/ /\ SendFails("binary size")
          /\ UNCHANGED rcv
    /\ UNCHANGED <<inputVars, addr, socks, sockOpts, eof, sessVars, progVars,
                   outVars, histVars, aloneVars>>

\* Lines 265-269: the checksum goes out, "MD5 OK" is awaited.
SendMd5 ==
    /\ pc = "send_md5"
    /\ \/ /\ SendOk(UploadMd5(upload), "file checksum")
          /\ ReceiveExactly(1, "file checksum", ExpectInt(RESPONSE_BIN_MD5_OK),
                            TRUE, "pre_transfer")
          /\ UNCHANGED exc
       \/ /\ SendFails("file checksum")
          /\ UNCHANGED rcv
    /\ UNCHANGED <<inputVars, addr, socks, sockOpts, eof, sessVars, progVars,
                   outVars, histVars, aloneVars>>

\* Lines 272-280: TCP_NODELAY off, the send buffer limited, offset = 0 and a
\* new ProgressBar.
PreTransfer ==
    /\ pc = "pre_transfer"
    /\ \/ /\ nodelay' = 0
          /\ sndbuf' = UPLOAD_BUFFER_SIZE
          /\ offset' = 0
          /\ last_progress' = NoProgress
          /\ pc' = "chunk_loop"
          /\ UNCHANGED exc
       \/ /\ SockOptFails("nodelay")
          /\ UNCHANGED <<nodelay, sndbuf, offset, last_progress>>
       \/ /\ nodelay' = 0
          /\ SockOptFails("sndbuf")
          /\ UNCHANGED <<sndbuf, offset, last_progress>>
    /\ UNCHANGED <<inputVars, addr, socks, timeout, eof, wire, rcv, version,
                   features, auth, upload, nonce, cnonce, chunk, renders,
                   done_calls, outVars, histVars, aloneVars>>

\* Lines 281-285: the next chunk is cut and offset advanced, or the loop is
\* left.
ChunkLoop ==
    /\ pc = "chunk_loop"
    /\ chunk' = Chunk(upload, offset)
    /\ IF ChunkLen(Chunk(upload, offset)) = 0
       THEN /\ pc' = "transfer_done"
            /\ UNCHANGED offset
       ELSE /\ offset' = offset + ChunkLen(Chunk(upload, offset))
            /\ pc' = "chunk_send"
    /\ UNCHANGED <<inputVars, addr, socks, sockOpts, eof, wire, rcv, version,
                   features, auth, upload, nonce, cnonce, progVars, exc,
                   outVars, histVars, aloneVars>>

\* Lines 287-293: the chunk goes out; from version 2 on "chunk OK" is
\* awaited.  An OSError of sendall becomes OTAError "Error sending data".
ChunkSend ==
    /\ pc = "chunk_send"
    /\ \/ /\ wire' = Append(wire, Tx("chunk", chunk))
          /\ IF ChunkAcked(version)
             THEN ReceiveExactly(1, "chunk OK", ExpectInt(RESPONSE_CHUNK_OK),
                                 TRUE, "chunk_progress")
             ELSE pc' = "chunk_progress" /\ UNCHANGED rcv
          /\ UNCHANGED exc
       \/ /\ SendFails("data")
          /\ UNCHANGED rcv
    /\ UNCHANGED <<inputVars, addr, socks, sockOpts, eof, sessVars, progVars,
                   outVars, histVars, aloneVars>>

\* Line 295: progress.update(offset / upload_size).
ChunkProgress ==
    /\ pc = "chunk_progress"
    /\ Update(offset, upload.size)
    /\ pc' = "chunk_loop"
    /\ UNCHANGED <<inputVars, addr, socks, sockOpts, eof, wire, rcv, sessVars,
                   done_calls, exc, outVars, histVars, aloneVars>>

\* Lines 296-304: progress.done(), TCP_NODELAY on again, "receive OK" is
\* awaited.
TransferDone ==
    /\ pc = "transfer_done"
    /\ done_calls' = done_calls + 1
    /\ \/ /\ nodelay' = 1
          /\ ReceiveExactly(1, "receive OK", ExpectInt(RESPONSE_RECEIVE_OK),
                            TRUE, "recv_end")
          /\ UNCHANGED exc
       \/ /\ SockOptFails("nodelay")
          /\ UNCHANGED <<nodelay, rcv>>
    /\ UNCHANGED <<inputVars, addr, socks, sndbuf, timeout, eof, wire,
                   sessVars, last_progress, renders, outVars, histVars, aloneVars>>

\* Line 305: "update end OK" is awaited.
RecvEnd ==
    /\ pc = "recv_end"
    /\ ReceiveExactly(1, "Update end", ExpectInt(RESPONSE_UPDATE_END_OK), TRUE,
                      "send_ack")
    /\ UNCHANGED <<inputVars, addr, socks, sockOpts, eof, wire, sessVars,
                   progVars, exc, outVars, histVars, aloneVars>>

\* Lines 306-311: the final acknowledgement goes out; perform_ota returns.
SendAck ==
    /\ pc = "send_ack"
    /\ \/ /\ SendOk([type |-> "int", val |-> RESPONSE_OK], "end acknowledgement")
          /\ pc' = "ota_returned"
          /\ UNCHANGED exc
       \/ SendFails("end acknowledgement")
    /\ UNCHANGED <<inputVars, addr, socks, sockOpts, eof, rcv, sessVars,
                   progVars, outVars, histVars, aloneVars>>

(***************************************************************************)
(* The program.                                                            *)
(***************************************************************************)
Next ==
    \/ Resolve
    \/ ForRes
    \/ Connect
    \/ OpenFile
    \/ OtaStart
    \/ SendMagic
    \/ VersionCheck
    \/ SendFeatures
    \/ FeaturesDone
    \/ AuthDone
    \/ NonceDone
    \/ SendResult
    \/ SetTimeout
    \/ SendSize
    \/ SendMd5
    \/ PreTransfer
    \/ ChunkLoop
    \/ ChunkSend
    \/ ChunkProgress
    \/ TransferDone
    \/ RecvEnd
    \/ SendAck
    \/ RecvFirst
    \/ RecvLoop
    \/ RecvMore
    \/ OtaReturned
    \/ OtaRaised

Spec == Init /\ [][Next]_vars

\* The interpreter keeps running the one thread there is.
FairSpec == Spec /\ WF_vars(Next)

(***************************************************************************)
(* check_error on its own: every byte against every `expect` of the code.  *)
(***************************************************************************)
CeInit ==
    /\ pc = "check_error"
    /\ password = "None"
    /\ file_size = 0
    /\ nres = 1
    /\ socks = << >>
    /\ Fresh
    /\ rcv = NoRcv
    /\ stream = NoStream
    /\ calls = << >>
    /\ sz = SzIdle
    /\ ce \in { [dat |-> b, expect |-> e, out |-> "idle"] :
                b \in Byte, e \in Expects }

CheckErrorCall ==
    /\ pc = "check_error"
    /\ ce.out = "idle"
    /\ ce' = [ce EXCEPT !.out = check_error(<<ce.dat>>, ce.expect)]
    /\ UNCHANGED <<pc, inputVars, addr, socks, sockOpts, eof, wire, rcv,
                   sessVars, progVars, exc, outVars, histVars, stream, calls,
                   sz>>

SpecCheckError == CeInit /\ [][CheckErrorCall]_vars

(***************************************************************************)
(* ProgressBar on its own: any sequence of update calls on a new bar.      *)
(***************************************************************************)
\* The most update calls made on one bar.
MaxCalls == 3

\* The arguments of update, as quotients: 0, 0.005, 0.01, 0.28, 0.29 (which
\* int(progress * 100) takes to 28), 0.3, 1 and 1.5.
Fractions ==
    { [num |-> 0, den |-> 1], [num |-> 1, den |-> 200], [num |-> 1, den |-> 100],
      [num |-> 7, den |-> 25], [num |-> 29, den |-> 100],
      [num |-> 3, den |-> 10], [num |-> 1, den |-> 1], [num |-> 3, den |-> 2] }

PbInit ==
    /\ pc = "progress_bar"
    /\ password = "None"
    /\ file_size = 0
    /\ nres = 1
    /\ socks = << >>
    /\ Fresh
    /\ rcv = NoRcv
    /\ ce = CeIdle
    /\ stream = NoStream
    /\ calls = << >>
    /\ sz = SzIdle

UpdateCall ==
    /\ pc = "progress_bar"
    /\ Len(calls) < MaxCalls
    /\ \E f \in Fractions :
         /\ Update(f.num, f.den)
         /\ calls' = Append(calls, f)
    /\ UNCHANGED <<pc, inputVars, addr, socks, sockOpts, eof, wire, rcv,
                   sessVars, done_calls, exc, outVars, histVars, ce, stream, sz>>

SpecProgress == PbInit /\ [][UpdateCall]_vars

(***************************************************************************)
(* The length announcement on its own, lines 255-262, for payloads of any  *)
(* length, those of 4 GiB and more included.                               *)
(***************************************************************************)
\* len(upload_contents) = top * 2^24 + low: lengths around 0, 2^8, 2^13,
\* 2^16, 2^24, 2^32 (top = 256) and 2^33 (top = 512).
SizeTops == { 0, 1, 255, 256, 257, 511 }
SizeLows == { 0, 1, 255, 256, 8192, 8193, 65535, 65536, 16777215 }

SzInit ==
    /\ pc = "send_size"
    /\ password = "None"
    /\ file_size = 0
    /\ nres = 1
    /\ socks = <<"open">>
    /\ Fresh
    /\ rcv = NoRcv
    /\ ce = CeIdle
    /\ stream = NoStream
    /\ calls = << >>
    /\ \E t \in SizeTops, l \in SizeLows :
         sz = [size |-> [top |-> t, low |-> l], encoded |-> << >>,
               out |-> "idle"]

\* Lines 255-262: the length is encoded and sent; nothing else looks at it.
SendSizeCall ==
    /\ pc = "send_size"
    /\ sz.out = "idle"
    /\ \/ sz' = [sz EXCEPT !.encoded = UploadSizeEncodedWide(sz.size),
                            !.out = "sent"]
       \/ sz' = [sz EXCEPT !.out = "OTAError"]
    /\ UNCHANGED <<pc, inputVars, addr, socks, sockOpts, eof, wire, rcv,
                   sessVars, progVars, exc, outVars, histVars, ce, stream,
                   calls>>

SpecSize == SzInit /\ [][SendSizeCall]_vars

(***************************************************************************)
(* receive_exactly on its own: one call on a socket whose receive queue    *)
(* holds one byte more than the largest amount asked for, read in          *)
(* fragments of any size.                                                  *)
(***************************************************************************)
\* The largest `amount` asked for.
MaxAmount == 3

\* The bytes of the queue: a success code, the code the feature step
\* accepts, and a device error code.
RxBytes == { RESPONSE_OK, RESPONSE_HEADER_OK, RESPONSE_ERROR_MAGIC }

\* `expect` as the version step, the feature step and the nonce pass it.
RxExpects ==
    { ExpectInt(RESPONSE_OK),
      ExpectList(<<RESPONSE_HEADER_OK, RESPONSE_SUPPORTS_COMPRESSION>>),
      ExpectList(<< >>) }

RxInit ==
    /\ pc = "recv_first"
    /\ password = "None"
    /\ file_size = 0
    /\ nres = 1
    /\ socks = <<"open">>
    /\ Fresh
    /\ ce = CeIdle
    /\ calls = << >>
    /\ sz = SzIdle
    /\ \E amount \in 1..MaxAmount, expect \in RxExpects, decode \in BOOLEAN :
         rcv = [amount |-> amount, msg |-> "alone", expect |-> expect,
                decode |-> decode, data |-> << >>, ret |-> "rx_done"]
    /\ \E bytes \in [1..(MaxAmount + 1) -> RxBytes] :
         stream = [given |-> TRUE, bytes |-> bytes, pos |-> 0]

RxNext ==
    \/ RecvFirst
    \/ RecvLoop
    \/ RecvMore

SpecReceive == RxInit /\ [][RxNext]_vars

(***************************************************************************)
(* Reading the wire.                                                       *)
(***************************************************************************)
Idx == 1..Len(wire)
IsTx(i, m) == wire[i].dir = "tx" /\ wire[i].msg = m
IsRx(i, m) == wire[i].dir = "rx" /\ wire[i].msg = m
\* A receive that returned exactly the one byte b.
IsReply(i, m, b) == IsRx(i, m) /\ wire[i].ok /\ wire[i].data = <<b>>
NumTx(m) == Cardinality({ i \in Idx : IsTx(i, m) })
NumReply(m, b) == Cardinality({ i \in Idx : IsReply(i, m, b) })
CurrentSock == socks[Len(socks)]
InReceive == pc \in { "recv_first", "recv_loop", "recv_more" }
\* The unsigned big-endian number four bytes stand for.
DecodeBE32(d) == ((d[1] * 256 + d[2]) * 256 + d[3]) * 256 + d[4]

(***************************************************************************)
(* C1.  Transfer step: with version < 2 nothing is read between chunk      *)
(* sends (the event after a chunk send is the next chunk send, and no      *)
(* "chunk OK" receive is ever started); with version >= 2 every chunk send *)
(* is followed, before the next send, by one receive of exactly one byte   *)
(* expecting 0x47, taken with a single recv call; at most one sent chunk   *)
(* is unacknowledged, and on success acknowledgements equal chunks sent.   *)
(***************************************************************************)
C1_ChunkAckByVersion ==
    /\ \A i \in Idx :
         IsTx(i, "chunk") /\ i < Len(wire) =>
            IF version < 2
            THEN IsTx(i + 1, "chunk") \/ IsRx(i + 1, "receive OK")
            ELSE /\ IsRx(i + 1, "chunk OK")
                 /\ wire[i + 1].expect = ExpectInt(RESPONSE_CHUNK_OK)
                 /\ Len(wire[i + 1].data) = 1
                 /\ wire[i + 1].ok => wire[i + 1].data = <<RESPONSE_CHUNK_OK>>
    /\ InReceive /\ rcv.msg = "chunk OK" =>
         /\ version >= 2
         /\ pc # "recv_more"
         /\ IsTx(Len(wire), "chunk")
    /\ \A i \in Idx : IsRx(i, "chunk OK") => version >= 2 /\ IsTx(i - 1, "chunk")
    /\ version >= 2 =>
         NumTx("chunk") - NumReply("chunk OK", RESPONSE_CHUNK_OK) \in {0, 1}
    /\ version >= 2 /\ pc = "chunk_send" =>
         NumTx("chunk") = NumReply("chunk OK", RESPONSE_CHUNK_OK)
    /\ pc = "ota_returned" =>
         NumReply("chunk OK", RESPONSE_CHUNK_OK)
            = (IF version >= 2 THEN NumTx("chunk") ELSE 0)

\* A version 2 upload of two chunks has succeeded.
C1_Witness ==
    /\ pc = "ota_returned"
    /\ version = 2
    /\ NumTx("chunk") = 2
    /\ NumReply("chunk OK", RESPONSE_CHUNK_OK) = 2

(***************************************************************************)
(* C2.  Every run of run_ota comes to an end: perform_ota returns or       *)
(* raises and the program reaches its exit, whatever the device and the    *)
(* transport do (a read returns bytes, returns nothing because the device  *)
(* closed the stream, or raises).  Checked under FairSpec: the thread      *)
(* keeps running.                                                          *)
(***************************************************************************)
C2_Terminates == <>(pc = "exit")

(***************************************************************************)
(* C3.  When run_ota_impl_ has returned or raised, every socket it created *)
(* is closed.                                                              *)
(***************************************************************************)
C3_NoSocketLeak ==
    pc = "exit" => \A i \in 1..Len(socks) : socks[i] = "closed"

(***************************************************************************)
(* C4.  As claimed: whenever perform_ota fails with its typed failure      *)
(* (refused status byte, I/O error on a send or receive, unsupported       *)
(* version, missing password), the engine has already closed the           *)
(* connection when the failure leaves perform_ota.                         *)
(***************************************************************************)
C4_ClosedOnEveryFailure ==
    pc = "ota_raised" /\ exc.type = "OTAError" => CurrentSock = "closed"

\* The failures that come from check_error refusing a first byte.
ValidationKinds ==
    { ErrorKind(b) : b \in RESPONSE_ERROR_MAGIC..RESPONSE_ERROR_MD5_MISMATCH }
        \cup { "Unknown", "Unexpected" }

(***************************************************************************)
(* C4 as amended.  When a failure leaves perform_ota, the engine has       *)
(* closed the connection exactly if the failure is a status byte refused   *)
(* by check_error; on every other failure (I/O error, unsupported version, *)
(* missing password, any other exception) the connection is still open at *)
(* that moment, and it is run_ota_impl_ that closes it next.               *)
(***************************************************************************)
C4_ClosedOnValidationFailureOnly ==
    /\ pc = "ota_raised" =>
         (CurrentSock = "closed" <=>
            (exc.type = "OTAError" /\ exc.kind \in ValidationKinds))
    /\ pc = "exit" /\ exc # NoExc => CurrentSock = "closed"

\* The device answered the checksum with 0x8B and the failure is leaving
\* perform_ota.
C4_Witness ==
    /\ pc = "ota_raised"
    /\ exc.kind = "Md5Mismatch"
    /\ IsRx(Len(wire), "file checksum")
    /\ CurrentSock = "closed"

(***************************************************************************)
(* C5.  perform_ota ends by returning or by raising OTAError, nothing      *)
(* else, so a run_ota that got as far as calling it ends with 0 or 1.      *)
(***************************************************************************)
C5_OnlyTypedFailures ==
    /\ pc = "ota_raised" => exc.type = "OTAError"
    /\ pc = "exit" /\ Len(wire) > 0 => status \in { "0", "1" }

(***************************************************************************)
(* C6.  The payload is compressed exactly if the feature reply was 0x46;   *)
(* after 0x40 it is the file as read.  The length sent (decoded from its   *)
(* four bytes), the checksum sent and every chunk sent are all taken from  *)
(* that one byte sequence.                                                 *)
(***************************************************************************)
C6_CompressionAndOneSource ==
    /\ \A i \in Idx :
         IsRx(i, "features") /\ wire[i].ok /\ pc # "features_done" =>
            /\ wire[i].data = <<RESPONSE_SUPPORTS_COMPRESSION>>
                 <=> upload.kind = "gzip"
            /\ wire[i].data = <<RESPONSE_HEADER_OK>>
                 => upload = [kind |-> "raw", size |-> file_size]
    /\ \A i \in Idx :
         /\ IsTx(i, "binary size") => DecodeBE32(wire[i].data) = upload.size
         /\ IsTx(i, "file checksum") => wire[i].data.md5 = <<upload>>
         /\ IsTx(i, "chunk") =>
              /\ wire[i].data.of = upload
              /\ 0 <= wire[i].data.from
              /\ wire[i].data.from < wire[i].data.to
              /\ wire[i].data.to <= upload.size

\* A compressed upload has succeeded: its length, checksum and chunks went
\* out.
C6_Witness ==
    /\ pc = "ota_returned"
    /\ upload.kind = "gzip"
    /\ file_size > 0
    /\ NumTx("binary size") = 1
    /\ NumTx("file checksum") = 1
    /\ NumTx("chunk") >= 1

(***************************************************************************)
(* C7.  A status byte that is a device error code, or is not in the        *)
(* allow-set of its step, ends the attempt: the receive fails with the     *)
(* diagnostic of that byte, receive_exactly has closed the connection, and *)
(* it is the last thing that happens on the wire.  (A receive with an      *)
(* empty allow-set, the nonce, validates nothing.)                         *)
(***************************************************************************)
Diagnostic(b) == IF ErrorKind(b) # "None" THEN ErrorKind(b) ELSE "Unexpected"

BadStatus(i) ==
    /\ wire[i].dir = "rx"
    /\ ExpectSet(wire[i].expect) # {}
    /\ \/ ErrorKind(wire[i].data[1]) # "None"
       \/ wire[i].data[1] \notin ExpectSet(wire[i].expect)

C7_BadStatusEndsAttempt ==
    \A i \in Idx :
       BadStatus(i) =>
          /\ ~wire[i].ok
          /\ i = Len(wire)
          /\ pc \in { "ota_raised", "exit" }
          /\ exc.type = "OTAError"
          /\ exc.kind = Diagnostic(wire[i].data[1])
          /\ CurrentSock = "closed"

(***************************************************************************)
(* C8.  perform_ota returns only after the whole exchange, in order:       *)
(* magic bytes out; status 0x00 and a version in {1, 2} in; feature byte   *)
(* out; 0x40 or 0x46 in; 0x41 in, or 0x01 in followed by a 32-byte nonce   *)
(* in, client nonce out, digest out, 0x41 in; length out; 0x42 in;         *)
(* checksum out; 0x43 in; the chunks out, each followed by 0x47 in when    *)
(* the version is 2; 0x44 in; 0x45 in; the final 0x00 out.                 *)
(***************************************************************************)
\* Index of the last event of the Auth step.
AuthEnd == IF IsReply(5, "auth", RESPONSE_REQUEST_AUTH) THEN 9 ELSE 5

\* Events one chunk takes.
PerChunk == IF wire[2].data[2] >= 2 THEN 2 ELSE 1

HandshakeInOrder(statusOk) ==
    /\ Len(wire) >= AuthEnd + 7
    /\ IsTx(1, "magic bytes") /\ wire[1].data = MAGIC_BYTES
    /\ IsRx(2, "version") /\ wire[2].ok /\ Len(wire[2].data) = 2
    /\ statusOk => wire[2].data[1] = RESPONSE_OK
    /\ wire[2].data[2] \in {1, 2}
    /\ IsTx(3, "features") /\ wire[3].data = <<FEATURE_SUPPORTS_COMPRESSION>>
    /\ \/ IsReply(4, "features", RESPONSE_HEADER_OK)
       \/ IsReply(4, "features", RESPONSE_SUPPORTS_COMPRESSION)
    /\ \/ IsReply(5, "auth", RESPONSE_AUTH_OK)
       \/ /\ IsReply(5, "auth", RESPONSE_REQUEST_AUTH)
          /\ IsRx(6, "authentication nonce") /\ wire[6].ok
          /\ Len(wire[6].data) = NONCE_SIZE
          /\ IsTx(7, "auth cnonce")
          /\ IsTx(8, "auth result")
          /\ IsReply(9, "auth result", RESPONSE_AUTH_OK)
    /\ IsTx(AuthEnd + 1, "binary size")
    /\ IsReply(AuthEnd + 2, "binary size", RESPONSE_UPDATE_PREPARE_OK)
    /\ IsTx(AuthEnd + 3, "file checksum")
    /\ IsReply(AuthEnd + 4, "file checksum", RESPONSE_BIN_MD5_OK)
    /\ \A i \in (AuthEnd + 5)..(Len(wire) - 3) :
         IF PerChunk = 2 /\ (i - AuthEnd) % 2 = 0
         THEN IsReply(i, "chunk OK", RESPONSE_CHUNK_OK)
         ELSE IsTx(i, "chunk")
    /\ (Len(wire) - 3 - (AuthEnd + 4)) % PerChunk = 0
    /\ IsReply(Len(wire) - 2, "receive OK", RESPONSE_RECEIVE_OK)
    /\ IsReply(Len(wire) - 1, "Update end", RESPONSE_UPDATE_END_OK)
    /\ IsTx(Len(wire), "end acknowledgement")
    /\ wire[Len(wire)].data = <<RESPONSE_OK>>

C8_SuccessOnlyAfterFullExchange ==
    pc = "ota_returned" => HandshakeInOrder(TRUE)

(***************************************************************************)
(* C10.  Auth step.  After 0x01 with no password (None or empty) the       *)
(* attempt fails with the missing-credential error and the auth reply      *)
(* stays the last event on the wire: no nonce is read, nothing is sent.    *)
(* With a password the nonce receive takes 32 bytes and refuses none of    *)
(* them; the client nonce is sent only right after it, the digest only     *)
(* right after the client nonce, and the length, after an auth request,    *)
(* only right after 0x41 was received in answer to the digest.             *)
(***************************************************************************)
C10_AuthStep ==
    /\ \A i \in Idx :
         IsReply(i, "auth", RESPONSE_REQUEST_AUTH)
         /\ password \in { "None", "" } /\ pc # "auth_done" =>
            /\ i = Len(wire)
            /\ pc \in { "ota_raised", "exit" }
            /\ exc = [type |-> "OTAError", kind |-> "MissingCredential",
                      msg |-> "auth"]
    /\ \A i \in Idx :
         /\ IsRx(i, "authentication nonce") =>
              /\ password \notin { "None", "" }
              /\ IsReply(i - 1, "auth", RESPONSE_REQUEST_AUTH)
              /\ wire[i].ok
              /\ Len(wire[i].data) = NONCE_SIZE
         /\ IsTx(i, "auth cnonce") => IsRx(i - 1, "authentication nonce")
         /\ IsTx(i, "auth result") =>
              /\ IsTx(i - 1, "auth cnonce")
              /\ wire[i].data.md5 =
                    <<password, wire[i - 2].data, wire[i - 1].data.text>>
         /\ IsRx(i, "auth result") =>
              /\ IsTx(i - 1, "auth result")
              /\ wire[i].expect = ExpectInt(RESPONSE_AUTH_OK)
         /\ IsTx(i, "binary size") =>
              \/ IsReply(i - 1, "auth", RESPONSE_AUTH_OK)
              \/ /\ IsReply(i - 1, "auth result", RESPONSE_AUTH_OK)
                 /\ IsReply(i - 5, "auth", RESPONSE_REQUEST_AUTH)
    /\ pc = "nonce_done" => rcv.data \in { Rep(b, NONCE_SIZE) : b \in NonceBytes }

\* A password was asked for and given, and the length has gone out.
C10_Witness ==
    /\ auth = RESPONSE_REQUEST_AUTH
    /\ password = "secret"
    /\ NumTx("auth cnonce") = 1
    /\ NumTx("auth result") = 1
    /\ NumTx("binary size") = 1

(***************************************************************************)
(* C9.  check_error gives every byte one outcome, decided by the byte and  *)
(* the expected set: the fixed diagnostic for a listed error code, else    *)
(* Unexpected for a byte outside the expected set, else acceptance.  Read  *)
(* in favour of the code where the claim is loose: 0xFF keeps the          *)
(* diagnostic the code lists for it, and an empty expected set stands for  *)
(* "no validation".  Checked under SpecCheckError.                         *)
(***************************************************************************)
Classify(b, expected) ==
    IF expected = {} THEN "ok"
    ELSE IF b \in RESPONSE_ERROR_MAGIC..RESPONSE_ERROR_MD5_MISMATCH
              \/ b = RESPONSE_ERROR_UNKNOWN
         THEN ErrorKind(b)
    ELSE IF b \notin expected THEN "Unexpected"
    ELSE "ok"

C9_CheckErrorClassifies ==
    ce.out # "idle" => ce.out = Classify(ce.dat, ExpectSet(ce.expect))

(***************************************************************************)
(* C11.  For any sequence of update calls on one ProgressBar: no two       *)
(* renders in a row show the same percentage; what has been written is the *)
(* sequence of the calls' percentages with every repetition of the one     *)
(* before left out, so a call whose percentage is the last rendered one    *)
(* writes nothing and leaves last_progress as it is; a call with a         *)
(* fraction >= 1 counts as 100; the first call is always written, at 0%    *)
(* too.  Checked under SpecProgress.                                       *)
(***************************************************************************)
\* The integer percentage of the i-th call.
CallPercent(i) == NewProgress(calls[i].num, calls[i].den)

\* The percentages of calls 1..n with each repetition of the one before
\* left out.
RECURSIVE Rendered(_)
Rendered(n) ==
    IF n = 0 THEN << >>
    ELSE IF n > 1 /\ CallPercent(n) = CallPercent(n - 1) THEN Rendered(n - 1)
    ELSE Append(Rendered(n - 1), CallPercent(n))

C11_NoRepeatedRender ==
    /\ \A i \in 1..(Len(renders) - 1) : renders[i] # renders[i + 1]
    /\ renders = Rendered(Len(calls))
    /\ calls = << >> => last_progress = NoProgress
    /\ calls # << >> =>
         /\ renders[1] = CallPercent(1)
         /\ last_progress = CallPercent(Len(calls))
         /\ last_progress = renders[Len(renders)]
         /\ calls[Len(calls)].num >= calls[Len(calls)].den =>
              last_progress = 100
    /\ \A i \in 1..Len(calls) :
         calls[i].num < calls[i].den =>
            /\ CallPercent(i) * calls[i].den <= 100 * calls[i].num
            /\ 100 * calls[i].num < (CallPercent(i) + 2) * calls[i].den

\* A call at 0% opened the bar, a call was left out because it repeated the
\* percentage before it, and a call above 1 closed the bar at 100%.
C11_Witness ==
    /\ Len(calls) = 3
    /\ calls[1].num = 0
    /\ CallPercent(2) = CallPercent(3)
    /\ renders = <<0, 100>>

(***************************************************************************)
(* C12.  run_ota_impl_ takes the resolved addresses in order, one socket   *)
(* each, and stops at the first that connects: every address tried before  *)
(* the latest one failed to connect.  perform_ota is invoked at most once, *)
(* on that first connected address, and on no later address once it has    *)
(* failed.  At the end the result is 0 exactly if perform_ota was invoked  *)
(* and did not raise; it is 1 when perform_ota raised OTAError and when    *)
(* every address failed to connect.                                        *)
(***************************************************************************)
C12_OneInvocation ==
    /\ Len(socks) = addr
    /\ addr <= nres
    /\ Len(conn) = (IF pc = "connect" THEN addr - 1 ELSE addr)
    /\ \A i \in 1..(Len(conn) - 1) : conn[i] = "failed"
    /\ Len(ota_calls) <= 1
    /\ ota_calls # << >> =>
         /\ ota_calls[1] = addr
         /\ Len(conn) = addr
         /\ conn[addr] = "connected"
    /\ pc = "exit" =>
         /\ impl_out = "0" <=> (ota_calls # << >> /\ exc = NoExc)
         /\ impl_out = "0" => IsTx(Len(wire), "end acknowledgement")
         /\ ota_calls # << >> /\ exc.type = "OTAError" => impl_out = "1"
         /\ Len(conn) = nres /\ (\A i \in 1..nres : conn[i] = "failed") =>
              impl_out = "1"

\* Two addresses were resolved; the first connected, perform_ota failed on
\* it, and run_ota_impl_ returned 1 without trying the second.
C12_Witness ==
    /\ pc = "exit"
    /\ nres = 2
    /\ conn = <<"connected">>
    /\ ota_calls = <<1>>
    /\ exc.type = "OTAError"
    /\ impl_out = "1"

(***************************************************************************)
(* C13.  receive_exactly(amount >= 1) on a stream read in fragments of any *)
(* size: what it has taken so far is always the head of the stream, in     *)
(* order, and never more than `amount` bytes; it returns exactly the first *)
(* `amount` bytes.  The first read takes exactly one byte.  check_error    *)
(* sees that first byte alone: a refusal comes with one byte taken and is  *)
(* check_error's verdict on it, and once the first byte has passed no      *)
(* later byte is refused, error code or not.  With an empty expected set   *)
(* nothing is refused.  Checked under SpecReceive.                         *)
(***************************************************************************)
Refused == pc = "ota_raised" /\ exc.kind \in ValidationKinds

C13_TakenInOrder ==
    /\ rcv.data = SubSeq(stream.bytes, 1, stream.pos)
    /\ stream.pos <= rcv.amount
    /\ pc = "recv_first" => stream.pos = 0
    /\ pc = "rx_done" =>
         /\ stream.pos = rcv.amount
         /\ wire = <<Rx(rcv.msg, SubSeq(stream.bytes, 1, rcv.amount), TRUE,
                        rcv.expect)>>
    /\ pc \in { "recv_loop", "recv_more", "rx_done" } =>
         check_error(<<stream.bytes[1]>>, rcv.expect) = "ok"
    /\ Refused =>
         /\ stream.pos = 1
         /\ exc.kind = check_error(<<stream.bytes[1]>>, rcv.expect)
         /\ CurrentSock = "closed"
    /\ pc = "ota_raised" /\ stream.pos # 1 => exc.kind = "IOFailure"
    /\ ExpectSet(rcv.expect) = {} => ~Refused

C13_ReceiveExactly ==
    /\ []C13_TakenInOrder
    /\ [][pc = "recv_first" /\ stream'.pos # stream.pos =>
            stream'.pos = 1 /\ Len(rcv'.data) = 1]_vars

\* Three bytes were asked for with a non-empty expected set; they came in
\* more than one read, the second of them is a device error code, and the
\* call returned all three.
C13_Witness ==
    /\ pc = "rx_done"
    /\ rcv.amount = 3
    /\ ExpectSet(rcv.expect) # {}
    /\ Truthy(rcv.expect)
    /\ stream.bytes[2] = RESPONSE_ERROR_MAGIC
    /\ rcv.data = <<RESPONSE_HEADER_OK, RESPONSE_ERROR_MAGIC, RESPONSE_OK>>

(***************************************************************************)
(* C14.  Transfer loop.  0 <= offset <= payload length, and offset is the  *)
(* number of bytes handed to sendall so far: the bytes of the chunk sends  *)
(* that returned, plus the chunk counted at line 285 whose sendall (line   *)
(* 288, the next statement) has not returned yet or has failed.  The k-th  *)
(* chunk sent is the payload from 8192 (k - 1) up to 8192 k or the end of  *)
(* the payload, so the chunks sent are contiguous, in order, of 8192 bytes *)
(* each except a last one of 1..8192.  When the loop is left normally the  *)
(* chunks add up to the payload and there are ceil(length / 8192) of them. *)
(* An empty payload sends no chunk, reads no chunk OK and renders nothing. *)
(***************************************************************************)
\* The chunk sends that returned, as indices of the wire, and their bytes.
ChunkTx == { i \in Idx : IsTx(i, "chunk") }

RECURSIVE SumChunks(_)
SumChunks(n) ==
    IF n = 0 THEN 0
    ELSE SumChunks(n - 1)
            + (IF IsTx(n, "chunk") THEN ChunkLen(wire[n].data) ELSE 0)

SentBytes == SumChunks(Len(wire))

\* The bytes of the chunk that was counted and whose sendall has not
\* returned, or has raised.
InFlight ==
    IF pc = "chunk_send"
       \/ (pc \in { "ota_raised", "exit" } /\ exc.kind = "IOFailure"
              /\ exc.msg = "data")
    THEN ChunkLen(chunk)
    ELSE 0

\* The transfer loop has been left through its break.
LoopDone == done_calls > 0 \/ pc = "transfer_done"

C14_ChunksCoverPayload ==
    /\ 0 <= offset /\ offset <= upload.size
    /\ offset = SentBytes + InFlight
    /\ \A i \in ChunkTx :
         LET k == Cardinality({ j \in ChunkTx : j <= i })
         IN  /\ wire[i].data.of = upload
             /\ wire[i].data.from = 8192 * (k - 1)
             /\ wire[i].data.to = Min(8192 * k, upload.size)
             /\ ChunkLen(wire[i].data) \in 1..8192
             /\ wire[i].data.to < upload.size => ChunkLen(wire[i].data) = 8192
    /\ LoopDone =>
         /\ SentBytes = upload.size
         /\ offset = upload.size
         /\ Cardinality(ChunkTx) = (upload.size + 8191) \div 8192
    /\ upload.size = 0 =>
         /\ ChunkTx = {}
         /\ pc \notin { "chunk_send", "chunk_progress" }
         /\ \A i \in Idx : ~IsRx(i, "chunk OK")
         /\ InReceive => rcv.msg # "chunk OK"
         /\ renders = << >>

\* A payload of one full block and one byte has gone out in two chunks and
\* the loop has been left.
C14_Witness ==
    /\ pc = "transfer_done"
    /\ upload.size % 8192 = 1
    /\ Cardinality(ChunkTx) = upload.size \div 8192 + 1
    /\ \E i \in ChunkTx : ChunkLen(wire[i].data) = 1
    /\ \E i \in ChunkTx : ChunkLen(wire[i].data) = 8192

(***************************************************************************)
(* C15.  The timeout is 10 (set by run_ota_impl_) for the magic bytes, the *)
(* version, the features and the whole Auth step, and 30 from the send of  *)
(* the payload length to the final acknowledgement: for every send and     *)
(* receive that completed, for the receive that is running and for the     *)
(* send that is about to be made.  perform_ota changes the timeout once,   *)
(* from 10 to 30, after the Auth step and before the length is sent.       *)
(***************************************************************************)
\* The messages up to the end of the Auth step, and those after it.  The
\* names are those of the code; "auth result" and "binary size" name both a
\* send and the receive that follows it.
EarlyMsgs ==
    { "magic bytes", "version", "features", "auth", "authentication nonce",
      "auth cnonce", "auth result" }
LateMsgs ==
    { "binary size", "file checksum", "chunk", "chunk OK", "receive OK",
      "Update end", "end acknowledgement" }

\* Where perform_ota is about to send, or between two steps.
EarlyPcs ==
    { "send_magic", "version_check", "send_features", "features_done",
      "auth_done", "nonce_done", "send_result", "set_timeout" }
LatePcs ==
    { "send_size", "send_md5", "pre_transfer", "chunk_loop", "chunk_send",
      "chunk_progress", "transfer_done", "recv_end", "send_ack",
      "ota_returned" }

C15_TimeoutByPhase ==
    /\ \A i \in Idx :
         /\ wire[i].msg \in EarlyMsgs => wire[i].timeout = 10
         /\ wire[i].msg \in LateMsgs => wire[i].timeout = 30
    /\ InReceive /\ rcv.msg \in EarlyMsgs => timeout = 10
    /\ InReceive /\ rcv.msg \in LateMsgs => timeout = 30
    /\ pc \in EarlyPcs => timeout = 10
    /\ pc \in LatePcs => timeout = 30

C15_TimeoutRaisedOnce ==
    /\ []C15_TimeoutByPhase
    /\ [][timeout' # timeout =>
            \/ pc = "for_res" /\ timeout' = 10
            \/ /\ pc = "set_timeout" /\ timeout = 10 /\ timeout' = 30
               /\ wire # << >>
               /\ wire[Len(wire)].msg \in { "auth", "auth result" }
               /\ wire[Len(wire)].data = <<RESPONSE_AUTH_OK>>
               /\ NumTx("binary size") = 0]_vars

\* An upload with authentication has succeeded: the digest went out under
\* timeout 10, the length and the final acknowledgement under 30.
C15_Witness ==
    /\ pc = "ota_returned"
    /\ \E i \in Idx : IsTx(i, "auth result") /\ wire[i].timeout = 10
    /\ \E i \in Idx : IsTx(i, "binary size") /\ wire[i].timeout = 30
    /\ wire[Len(wire)].timeout = 30
    /\ NumTx("chunk") > 0

(***************************************************************************)
(* C16.  TCP_NODELAY is on for the magic bytes and every message of the    *)
(* handshake up to and including the checksum exchange; it is off, and the *)
(* send buffer is 65536 bytes, for every chunk send and every chunk OK     *)
(* read; it is on again for the receive OK and update end reads and for    *)
(* the final acknowledgement.  The same holds for the receive that is      *)
(* running and the send that is about to be made.                          *)
(***************************************************************************)
HandshakeMsgs == EarlyMsgs \cup { "binary size", "file checksum" }
BulkMsgs == { "chunk", "chunk OK" }
FinalMsgs == { "receive OK", "Update end", "end acknowledgement" }

C16_NoDelayByPhase ==
    /\ \A i \in Idx :
         /\ wire[i].msg \in HandshakeMsgs => wire[i].nodelay = 1
         /\ wire[i].msg \in BulkMsgs =>
              wire[i].nodelay = 0 /\ wire[i].sndbuf = 65536
         /\ wire[i].msg \in FinalMsgs => wire[i].nodelay = 1
    /\ InReceive /\ rcv.msg \in HandshakeMsgs \cup FinalMsgs => nodelay = 1
    /\ InReceive /\ rcv.msg \in BulkMsgs => nodelay = 0 /\ sndbuf = 65536
    /\ pc \in EarlyPcs \cup { "send_size", "send_md5", "pre_transfer" } =>
         nodelay = 1
    /\ pc \in { "chunk_loop", "chunk_send", "chunk_progress",
                 "transfer_done" } =>
         nodelay = 0 /\ sndbuf = 65536
    /\ pc \in { "recv_end", "send_ack", "ota_returned" } => nodelay = 1

\* An upload has succeeded: a chunk went out with no-delay off and the
\* buffer at 65536, the final acknowledgement with no-delay on.
C16_Witness ==
    /\ pc = "ota_returned"
    /\ \E i \in Idx :
         IsTx(i, "chunk") /\ wire[i].nodelay = 0 /\ wire[i].sndbuf = 65536
    /\ \E i \in Idx : IsRx(i, "chunk OK") /\ wire[i].nodelay = 0
    /\ IsTx(Len(wire), "end acknowledgement")
    /\ wire[Len(wire)].nodelay = 1

(***************************************************************************)
(* C17.  The four bytes announced are the big-endian form of the payload   *)
(* length: read as an unsigned 32-bit number they give len(payload), the   *)
(* number of bytes the Transfer loop then streams (C14), for a payload of  *)
(* any length; where the length does not fit, the announcement is not      *)
(* sent.  Checked under SpecSize.                                          *)
(***************************************************************************)
\* The unsigned big-endian number four bytes stand for, as top * 2^24 + low.
DecodeWide(d) == [top |-> d[1], low |-> (d[2] * 256 + d[3]) * 256 + d[4]]

C17_AnnouncedIsStreamed ==
    sz.out = "sent" =>
       /\ Len(sz.encoded) = 4
       /\ \A i \in 1..4 : sz.encoded[i] \in Byte
       /\ DecodeWide(sz.encoded) = sz.size

(***************************************************************************)
(* C18.  Within one perform_ota run the percentages rendered are strictly  *)
(* increasing and lie in 0..100, and last_progress is the latest of them.  *)
(* Once the Transfer loop of a non-empty payload has been left the last    *)
(* one rendered is 100.  For an empty payload nothing is rendered, and the *)
(* division of line 295 is never reached with a length of zero.            *)
(* ProgressBar.done has run once when the loop has been left and line 296  *)
(* executed, and not at all before.                                        *)
(***************************************************************************)
\* The loop has cut an empty chunk: its `break` is taken.
BreakTaken ==
    upload.kind # "none" /\ chunk.of = upload /\ ChunkLen(chunk) = 0

C18_RendersIncrease ==
    /\ \A i, j \in 1..Len(renders) : i < j => renders[i] < renders[j]
    /\ \A i \in 1..Len(renders) : renders[i] \in 0..100
    /\ last_progress =
         (IF renders = << >> THEN NoProgress ELSE renders[Len(renders)])
    /\ BreakTaken /\ upload.size > 0 =>
         renders # << >> /\ renders[Len(renders)] = 100
    /\ upload.size = 0 => renders = << >>
    /\ pc = "chunk_progress" => upload.size > 0
    /\ done_calls = (IF BreakTaken /\ pc # "transfer_done" THEN 1 ELSE 0)

\* A payload of two chunks has been sent: 99% and then 100% were rendered,
\* and done has run.
C18_Witness ==
    /\ BreakTaken
    /\ Len(renders) = 2
    /\ renders[1] \in 1..99
    /\ renders[2] = 100
    /\ done_calls = 1

(***************************************************************************)
(* C19.  The password reaches the wire through the digest only.            *)
(* perform_ota reads its password argument nowhere unless the device has   *)
(* answered 0x01 at the Auth step, so when the device answers 0x41 at once *)
(* every step taken, every message sent and the outcome are those of the   *)
(* same run with any other password, None included.  Every message sent is *)
(* made of the constants of the protocol, the payload and the client nonce *)
(* alone, but for "auth result", which is the digest of the password, the  *)
(* server nonce and the client nonce, in that order; no message is the     *)
(* password itself.                                                        *)
(***************************************************************************)
\* What the payload can be, given the file and nothing else.
Payloads ==
    { FileContents(file_size) }
        \cup { GzipCompress(FileContents(file_size), g) : g \in GzipSizes(file_size) }

\* The message sent as event i is free of the password.
PasswordFree(i) ==
    CASE wire[i].msg = "magic bytes" -> wire[i].data = MAGIC_BYTES
      [] wire[i].msg = "features" -> wire[i].data = <<1>>
      [] wire[i].msg = "auth cnonce" ->
            /\ wire[i].data.type = "str"
            /\ wire[i].data.text \in CNonces
            /\ wire[i].data.text # password
      [] wire[i].msg = "binary size" ->
            \E p \in Payloads : wire[i].data = UploadSizeEncoded(p.size)
      [] wire[i].msg = "file checksum" ->
            \E p \in Payloads : wire[i].data = [type |-> "str", md5 |-> <<p>>]
      [] wire[i].msg = "chunk" -> wire[i].data.of \in Payloads
      [] wire[i].msg = "end acknowledgement" -> wire[i].data = <<0>>
      [] OTHER -> FALSE

C19_PasswordOnlyInDigest ==
    /\ pw_used => auth = RESPONSE_REQUEST_AUTH
    /\ pw_used => \E i \in Idx : IsReply(i, "auth", RESPONSE_REQUEST_AUTH)
    /\ (\E i \in Idx : IsReply(i, "auth", RESPONSE_AUTH_OK)) => ~pw_used
    /\ \A i \in Idx :
         wire[i].dir = "tx" =>
            IF wire[i].msg = "auth result"
            THEN /\ pw_used
                 /\ wire[i].data =
                       [type |-> "str", md5 |-> <<password, nonce, cnonce>>]
                 /\ IsRx(i - 2, "authentication nonce")
                 /\ nonce = wire[i - 2].data
                 /\ IsTx(i - 1, "auth cnonce")
                 /\ cnonce = wire[i - 1].data.text
            ELSE PasswordFree(i)

\* A password was given, the device answered 0x41 at once, and the upload
\* went through without the password having been read.
C19_Witness ==
    /\ pc = "ota_returned"
    /\ password = "secret"
    /\ IsReply(5, "auth", RESPONSE_AUTH_OK)
    /\ NumTx("chunk") > 0
    /\ ~pw_used

(***************************************************************************)
(* C20.  The progress shown is never ahead of the transfer.  Whenever a    *)
(* percentage has been rendered, the last one is at most                   *)
(* floor(100 * bytes of the chunk sends that returned / payload length),   *)
(* and with version >= 2 at most floor(100 * bytes of the chunks answered  *)
(* by 0x47 / payload length).  While a chunk is being sent or its          *)
(* acknowledgement awaited, and after either has failed, the percentage is *)
(* still the one shown before that chunk was cut.                          *)
(***************************************************************************)
RECURSIVE SumAcked(_)
SumAcked(n) ==
    IF n = 0 THEN 0
    ELSE SumAcked(n - 1)
            + (IF IsTx(n, "chunk") /\ n < Len(wire)
                  /\ IsReply(n + 1, "chunk OK", RESPONSE_CHUNK_OK)
               THEN ChunkLen(wire[n].data)
               ELSE 0)

AckedBytes == SumAcked(Len(wire))

\* The latest chunk cut has not got through yet, or has failed: its send
\* is pending or has raised, or its acknowledgement is awaited or was
\* refused or could not be read.
ChunkUnderWay ==
    \/ pc = "chunk_send"
    \/ InReceive /\ rcv.msg = "chunk OK"
    \/ /\ pc \in { "ota_raised", "exit" }
       /\ exc.msg \in { "data", "chunk OK" }

\* What the bar showed before the latest chunk was cut.
ShownBefore ==
    IF offset = ChunkLen(chunk) THEN NoProgress
    ELSE NewProgress(offset - ChunkLen(chunk), upload.size)

C20_ProgressNotAhead ==
    /\ renders # << >> =>
         /\ upload.size > 0
         /\ last_progress = renders[Len(renders)]
         /\ last_progress <= (100 * SentBytes) \div upload.size
         /\ version >= 2 =>
              last_progress <= (100 * AckedBytes) \div upload.size
    /\ renders = << >> => last_progress = NoProgress
    /\ ChunkUnderWay => last_progress = ShownBefore

\* Version 2, two chunks: the second was sent but its acknowledgement
\* failed, and the bar still shows the 99% of the first.
C20_Witness ==
    /\ pc = "ota_raised"
    /\ version = 2
    /\ exc.msg = "chunk OK"
    /\ NumTx("chunk") = 2
    /\ SentBytes = upload.size
    /\ renders = <<99>>

=============================================================================
